---- MODULE Spec2Model ----
(***************************************************************************)
(* Model of src/src/mrs1000_node.cpp: the session loop of the MRS1000      *)
(* node (connect, configure, stream, recover) and the assembly of the      *)
(* four single-layer scans into one aggregate point cloud.                 *)
(*                                                                         *)
(* One measurement unit carries scan_count samples, so the write cursor    *)
(* (iter_x, iter_y, iter_z, iter_int move in lock step) is counted in      *)
(* rows of the cloud: cursor = k means the next unit is written to row k.  *)
(* A unit is identified by its arrival number, which stands for its        *)
(* sample values; row value 0 is the zero-filled buffer after resize.      *)
(***************************************************************************)
EXTENDS Integers, Sequences, FiniteSets, TLC

\* ---- bounds of the model -------------------------------------------------
\* Spec explores unit sequences over two connect attempts (one reconnect),
\* SpecCycle longer unit sequences within one attempt, SpecRetry three
\* connect attempts, SpecSession and SpecLive three connect attempts with
\* units of the start and the end marker only.
MaxUnits == 5
MaxConnects == 2
MaxCycleUnits == 6
MaxCycleConnects == 1
MaxRetryUnits == 5
MaxRetryConnects == 3
MaxSessionUnits == 5
MaxSessionConnects == 3

\* ---- program constants ---------------------------------------------------
Layer1 == "Layer1"
Layer2 == "Layer2"
Layer3 == "Layer3"
Layer4 == "Layer4"
OtherLayer == "Other"
LayerIds == {Layer1, Layer2, Layer3, Layer4, OtherLayer}
DefinedLayers == {Layer1, Layer2, Layer3, Layer4}

CloudHeight == 4
ConnectRetrySleep == 1
TimeoutSleep == 10

VARIABLES pc, ok, connected, synced, cursor, buf, stamp, now,
          units, trace, clouds, attempts

vars == <<pc, ok, connected, synced, cursor, buf, stamp, now,
          units, trace, clouds, attempts>>

\* ---- pure functions ------------------------------------------------------
getLayerIndexSwapped(layer) ==
  CASE layer = Layer2 -> 0
    [] layer = Layer3 -> 2
    [] layer = Layer1 -> 1
    [] layer = Layer4 -> 3
    [] OTHER -> 0

getLayerIndexNoDefault(layer) ==
  CASE layer = Layer2 -> 0
    [] layer = Layer3 -> 1
    [] layer = Layer1 -> 2
    [] layer = Layer4 -> 3
    [] OTHER -> 3

getLayerIndex(layer) ==
  CASE layer = Layer2 -> 0
    [] layer = Layer3 -> 1
    [] layer = Layer1 -> 2
    [] layer = Layer4 -> 3
    [] OTHER -> 0

Ev(o, x, y) == [op |-> o, a |-> x, b |-> y]

\* CoLaAConversion::fillPointCloud2: append the unit's samples at the cursor.
\* A cursor at or past row CloudHeight is outside the buffer.
InBuffer(cur) == cur < CloudHeight

fillPointCloud2(b, cur, id) ==
  IF InBuffer(cur) THEN [b EXCEPT ![cur + 1] = id] ELSE b

\* ---- initial state: after construction, at the first test of line 116 ----
Init ==
  /\ pc = "outer"
  /\ ok = TRUE
  /\ connected = FALSE
  /\ synced = FALSE
  /\ cursor = 0
  /\ buf = [r \in 1..CloudHeight |-> 0]
  /\ stamp = 0
  /\ now = 0
  /\ units = <<>>
  /\ trace = <<>>
  /\ clouds = <<>>
  /\ attempts = 0

ConfigureCallsScanBeforeStart ==
  << Ev("login", 0, 0), Ev("getScanConfig", 0, 0),
     Ev("getScanOutputRange", 0, 0), Ev("setScanDataConfig", 0, 0),
     Ev("setEchoFilter", 0, 0), Ev("enableRangingApplication", 0, 0),
     Ev("saveConfig", 0, 0), Ev("scanContinuous", 1, 0),
     Ev("startDevice", 0, 0), Ev("startMeasurement", 0, 0) >>

\* ---- the driver calls of one session set-up, lines 130-175 ---------------
ConfigureCalls ==
  << Ev("login", 0, 0), Ev("getScanConfig", 0, 0),
     Ev("getScanOutputRange", 0, 0), Ev("setScanDataConfig", 0, 0),
     Ev("setEchoFilter", 0, 0), Ev("enableRangingApplication", 0, 0),
     Ev("saveConfig", 0, 0), Ev("startDevice", 0, 0),
     Ev("startMeasurement", 0, 0), Ev("scanContinuous", 1, 0) >>

\* lines 116-125: connect fails, sleep, continue
ConnectFailFatal(maxc) ==
  /\ pc = "outer" /\ ok /\ attempts < maxc
  /\ attempts' = attempts + 1
  /\ trace' = trace \o << Ev("connect", 0, 0), Ev("isConnected", 0, 0),
                          Ev("sleep", ConnectRetrySleep, 0) >>
  /\ now' = now + ConnectRetrySleep
  /\ pc' = "done"
  /\ UNCHANGED <<ok, connected, synced, cursor, buf, stamp, units, clouds>>

ConnectFail(maxc) ==
  /\ pc = "outer" /\ ok /\ attempts < maxc
  /\ attempts' = attempts + 1
  /\ trace' = trace \o << Ev("connect", 0, 0), Ev("isConnected", 0, 0),
                          Ev("sleep", ConnectRetrySleep, 0) >>
  /\ now' = now + ConnectRetrySleep
  /\ pc' = "outer"
  /\ UNCHANGED <<ok, connected, synced, cursor, buf, stamp, units, clouds>>

\* initial value of synced at the start of a streaming session, line 186
SyncedAtSessionStartKept(s) == s
SyncedAtSessionStart(s) == FALSE

\* lines 116-186: connect succeeds, login, configure, start, fresh iterators
ConnectOk(maxc) ==
  /\ pc = "outer" /\ ok /\ attempts < maxc
  /\ attempts' = attempts + 1
  /\ connected' = TRUE
  /\ trace' = trace \o << Ev("connect", 0, 0), Ev("isConnected", 1, 0) >>
                    \o ConfigureCalls
  /\ cursor' = 0
  /\ synced' = SyncedAtSessionStart(synced)
  /\ pc' = "inner"
  /\ UNCHANGED <<ok, buf, stamp, now, units, clouds>>

\* line 116 with ros::ok() false: return 0
Exit ==
  /\ pc = "outer" /\ ~ok
  /\ pc' = "done"
  /\ UNCHANGED <<ok, connected, synced, cursor, buf, stamp, now,
                 units, trace, clouds, attempts>>

\* the external shutdown signal: ros::ok() turns false and stays false
Shutdown ==
  /\ ok /\ pc \in {"outer", "inner"}
  /\ ok' = FALSE
  /\ UNCHANGED <<pc, connected, synced, cursor, buf, stamp, now,
                 units, trace, clouds, attempts>>

\* line 210: the start-of-cycle test
IsStartMarkerAny(layer) == layer \in {Layer2, OtherLayer}
IsStartMarker(layer) == layer = Layer2

\* line 225: the end-of-cycle test
IsEndMarkerL1(layer) == layer = Layer1
IsEndMarker(layer) == layer = Layer4

\* lines 210-217: a start marker puts the iterators back to the start
CursorAtWriteNoReset(cur, layer) == cur
CursorAtWrite(cur, layer) == IF IsStartMarker(layer) THEN 0 ELSE cur

\* lines 210-220: the unit is written only when synced
SyncedAfter(s, layer) == s \/ IsStartMarker(layer)

\* lines 190-192: cloud.header.stamp is set in every iteration
StampOfIterationAtStartOnly(old, start, layer) ==
  IF IsStartMarker(layer) THEN start ELSE old
StampOfIteration(old, start, layer) == start

\* lines 200-207: the router publishes on the channel of the layer
RouteEventsSyncedOnly(layer, id, syn) ==
  IF syn THEN << Ev("pubScan", getLayerIndex(layer), id),
                 Ev("pubMulti", getLayerIndex(layer), id) >>
         ELSE << >>
RouteEvents(layer, id, syn) ==
  << Ev("pubScan", getLayerIndex(layer), id),
     Ev("pubMulti", getLayerIndex(layer), id) >>

\* lines 222-238: the assembler's part of an iteration
WriteEvents(cur, id, c, end) ==
  << Ev("fill", cur, id) >> \o
  (IF end THEN << Ev("pubCloud", c, id) >> ELSE << >>) \o
  << Ev("spinOnce", 0, 0) >>

\* lines 198-238: the order of the statements of one iteration: the read,
\* the router, the assembler
SequencedAssemblerFirst(read, route, write) == read \o write \o route
Sequenced(read, route, write) == read \o route \o write

\* lines 188-238: one iteration of the streaming loop with a delivered unit
\* whose write (if any) stays inside the buffer
ReadUnit(layer, maxu) ==
  /\ pc = "inner" /\ ok /\ Len(units) < maxu
  /\ LET id == Len(units) + 1
         start == now
         syn == SyncedAfter(synced, layer)
         cur == CursorAtWrite(cursor, layer)
         nbuf == fillPointCloud2(buf, cur, id)
         nstamp == StampOfIteration(stamp, start, layer)
         read == << Ev("getScanData", 1, id) >>
         route == RouteEvents(layer, id, synced)
     IN
       /\ syn => InBuffer(cur)
       /\ units' = Append(units, [layer |-> layer, t |-> start, sess |-> attempts,
                                pos |-> IF syn THEN cur ELSE -1])
       /\ stamp' = nstamp
       /\ now' = now + 1
       /\ synced' = syn
       /\ IF ~syn
            THEN \* line 220: continue, spinOnce is skipped
                 /\ trace' = trace \o Sequenced(read, route, << >>)
                 /\ UNCHANGED <<cursor, buf, clouds>>
            ELSE /\ cursor' = cur + 1
                 /\ buf' = nbuf
                 /\ IF IsEndMarker(layer)
                      THEN /\ clouds' = Append(clouds,
                                  [stamp |-> nstamp, rows |-> nbuf, unit |-> id])
                           /\ trace' = trace \o Sequenced(read, route,
                                  WriteEvents(cur, id, Len(clouds) + 1, TRUE))
                      ELSE /\ clouds' = clouds
                           /\ trace' = trace \o Sequenced(read, route,
                                  WriteEvents(cur, id, 0, FALSE))
  /\ UNCHANGED <<pc, ok, connected, attempts>>

\* lines 188-238 when the iterators have run past the last row: the write of
\* line 222 is outside the cloud's data.  The build either faults there or
\* goes on with the cloud's data untouched.
ReadUnitOverrun(layer, fault, maxu) ==
  /\ pc = "inner" /\ ok /\ Len(units) < maxu
  /\ LET id == Len(units) + 1
         start == now
         syn == SyncedAfter(synced, layer)
         cur == CursorAtWrite(cursor, layer)
         nstamp == StampOfIteration(stamp, start, layer)
         read == << Ev("getScanData", 1, id) >>
         route == RouteEvents(layer, id, synced)
     IN
       /\ syn /\ ~InBuffer(cur)
       /\ units' = Append(units, [layer |-> layer, t |-> start, sess |-> attempts,
                                pos |-> IF syn THEN cur ELSE -1])
       /\ stamp' = nstamp
       /\ now' = now + 1
       /\ synced' = syn
       /\ cursor' = cur + 1
       /\ buf' = buf
       /\ IF fault
            THEN /\ pc' = "crashed"
                 /\ trace' = trace \o Sequenced(read, route, << Ev("fill", cur, id) >>)
                 /\ clouds' = clouds
            ELSE /\ pc' = pc
                 /\ IF IsEndMarker(layer)
                      THEN /\ clouds' = Append(clouds,
                                  [stamp |-> nstamp, rows |-> buf, unit |-> id])
                           /\ trace' = trace \o Sequenced(read, route,
                                  WriteEvents(cur, id, Len(clouds) + 1, TRUE))
                      ELSE /\ clouds' = clouds
                           /\ trace' = trace \o Sequenced(read, route,
                                  WriteEvents(cur, id, 0, FALSE))
  /\ UNCHANGED <<ok, connected, attempts>>

ReadTimeoutNoDisconnect ==
  /\ pc = "inner" /\ ok
  /\ stamp' = now
  /\ now' = now + TimeoutSleep
  /\ trace' = trace \o << Ev("getScanData", 0, 0), Ev("sleep", TimeoutSleep, 0) >>
  /\ pc' = "outer"
  /\ UNCHANGED <<ok, connected, synced, cursor, buf, units, clouds, attempts>>

ReadTimeoutNoBreak ==
  /\ pc = "inner" /\ ok
  /\ stamp' = now
  /\ now' = now + TimeoutSleep
  /\ trace' = trace \o << Ev("getScanData", 0, 0), Ev("sleep", TimeoutSleep, 0) >>
  /\ pc' = "inner"
  /\ UNCHANGED <<ok, connected, synced, cursor, buf, units, clouds, attempts>>

\* lines 231-241: getScanData returns false: sleep, break, disconnect
ReadTimeout ==
  /\ pc = "inner" /\ ok
  /\ stamp' = now
  /\ now' = now + TimeoutSleep
  /\ trace' = trace \o << Ev("getScanData", 0, 0), Ev("sleep", TimeoutSleep, 0),
                          Ev("disconnect", 0, 0) >>
  /\ connected' = FALSE
  /\ pc' = "outer"
  /\ UNCHANGED <<ok, synced, cursor, buf, units, clouds, attempts>>

StreamShutdownNoDisconnect ==
  /\ pc = "inner" /\ ~ok
  /\ pc' = "done"
  /\ UNCHANGED <<ok, connected, synced, cursor, buf, stamp, now, units, trace,
                 clouds, attempts>>

\* line 188 with ros::ok() false: leave the loop, disconnect, line 116, return
StreamShutdown ==
  /\ pc = "inner" /\ ~ok
  /\ trace' = Append(trace, Ev("disconnect", 0, 0))
  /\ connected' = FALSE
  /\ pc' = "done"
  /\ UNCHANGED <<ok, synced, cursor, buf, stamp, now, units, clouds, attempts>>

\* the program's steps with the driver's units drawn from ids
StepOver(ids, maxu, maxc) ==
  \/ ConnectFail(maxc)
  \/ ConnectOk(maxc)
  \/ Exit
  \/ Shutdown
  \/ \E layer \in ids : ReadUnit(layer, maxu)
  \/ \E layer \in ids, fault \in BOOLEAN : ReadUnitOverrun(layer, fault, maxu)
  \/ ReadTimeout
  \/ StreamShutdown

Step(maxu, maxc) == StepOver(LayerIds, maxu, maxc)

Next == Step(MaxUnits, MaxConnects)

Spec == Init /\ [][Next]_vars

NextCycle == Step(MaxCycleUnits, MaxCycleConnects)

SpecCycle == Init /\ [][NextCycle]_vars

NextRetry == Step(MaxRetryUnits, MaxRetryConnects)

SpecRetry == Init /\ [][NextRetry]_vars

\* The session loop (connect, set-up, timeout, shutdown) never reads the layer
\* identifier, so for its properties the driver's units are drawn from the
\* start and the end marker only: a unit is then discarded (Layer4 before
\* any Layer2), written, written and published, or written past the buffer.
MarkerLayerIds == {Layer2, Layer4}

NextSession == StepOver(MarkerLayerIds, MaxSessionUnits, MaxSessionConnects)

SpecSession == Init /\ [][NextSession]_vars

\* The loop under weak fairness: the single thread of main always takes its
\* next step (connect and getScanData return after a bounded wait); the
\* shutdown signal is left to the environment.
LoopStep == NextSession /\ ok' = ok

SpecLive == SpecSession /\ WF_vars(LoopStep)

\* ---- vocabulary of the properties ----------------------------------------
UnitIds == 1..Len(units)
CloudIds == 1..Len(clouds)

\* the unit was written into a row of the buffer
Written(i) == units[i].pos \in 0..(CloudHeight - 1)

\* the most recent Layer2 unit at or before unit e in e's session, 0 if none
LastStart(e) ==
  LET S == {j \in 1..e : units[j].layer = Layer2 /\ units[j].sess = units[e].sess}
  IN IF S = {} THEN 0 ELSE CHOOSE j \in S : \A k \in S : k <= j

Layers == [i \in UnitIds |-> units[i].layer]
OneSession == \A i, j \in UnitIds : units[i].sess = units[j].sess

ScanPubs == SelectSeq(trace, LAMBDA e : e.op = "pubScan")
MultiPubs == SelectSeq(trace, LAMBDA e : e.op = "pubMulti")

\* C1: every published cloud is preceded, since the most recent Layer2 unit
\* of its session, by a written unit of each of Layer2, Layer3, Layer1, Layer4.
C1_NoPartialCycleCloud ==
  \A c \in CloudIds :
    LET e == clouds[c].unit
        s == LastStart(e)
    IN /\ s > 0
       /\ \A L \in DefinedLayers :
            \E j \in s..e : units[j].layer = L /\ Written(j)

\* C2: a streaming session starts with synced false and the cursor at the
\* buffer start, and while the session has delivered no Layer2 unit no step
\* writes the buffer, moves the cursor or publishes a cloud, and every unit
\* delivered so far in it was discarded.
NoStartInSession ==
  \A j \in UnitIds : units[j].sess = attempts => units[j].layer # Layer2

C2_Step ==
  /\ (pc = "outer" /\ pc' = "inner") => (~synced' /\ cursor' = 0)
  /\ (pc = "inner" /\ NoStartInSession') =>
        /\ buf' = buf /\ cursor' = cursor /\ clouds' = clouds /\ ~synced'
        /\ \A j \in 1..Len(units') :
             units'[j].sess = attempts => units'[j].pos = -1

C2_UnsyncedDiscards == [][C2_Step]_vars

\* a session interrupted in the middle of a cycle, then a unit of the next
\* session discarded
C2_Witness ==
  \E i, j \in UnitIds :
    /\ j = i + 1
    /\ units[i].sess < units[j].sess
    /\ Written(i) /\ units[i].layer # Layer4
    /\ units[j].pos = -1

\* C3: every delivered unit has exactly one 2D scan message and exactly one
\* multi-return message, both on channel getLayerIndex(layer), synced or not.
C3_RoutingUnconditional ==
  /\ ScanPubs = [i \in UnitIds |-> Ev("pubScan", getLayerIndex(units[i].layer), i)]
  /\ MultiPubs = [i \in UnitIds |-> Ev("pubMulti", getLayerIndex(units[i].layer), i)]

C3_Witness ==
  \E i, j \in UnitIds :
    /\ units[i].pos = -1 /\ Written(j)
    /\ \E k \in 1..Len(trace) : trace[k] = Ev("pubScan", getLayerIndex(units[i].layer), i)

\* C4: a Layer2 unit is always written at row 0 (the cursors were reset) and
\* publishes nothing; the leading rows of every published cloud hold exactly
\* the units received from the most recent Layer2 on; and the sequence
\* L2, L3, L2, L3, L1, L4 publishes exactly one cloud holding units 3, 4, 5, 6.
RestartSequence == <<Layer2, Layer3, Layer2, Layer3, Layer1, Layer4>>

C4_StartMarkerDiscardsPartial ==
  /\ \A i \in UnitIds :
       units[i].layer = Layer2 =>
         /\ units[i].pos = 0
         /\ \A c \in CloudIds : clouds[c].unit # i
  /\ (pc = "inner" /\ units # <<>> /\ units[Len(units)].layer = Layer2
        /\ units[Len(units)].sess = attempts) => cursor = 1
  /\ \A c \in CloudIds :
       LET e == clouds[c].unit
           s == LastStart(e)
       IN \A r \in 1..CloudHeight :
            r <= e - s + 1 => clouds[c].rows[r] = s + r - 1
  /\ (Layers = RestartSequence /\ OneSession) =>
       /\ Len(clouds) = 1
       /\ clouds[1].rows = <<3, 4, 5, 6>>

C4_Witness ==
  /\ Layers = RestartSequence /\ OneSession
  /\ Len(clouds) = 1 /\ clouds[1].rows = <<3, 4, 5, 6>>

\* C5: every unit written while synced lands in buffer row
\* getLayerIndex(layer), whatever the order of arrival after the start marker.
C5_RowKeyedByLayerIndex ==
  \A i \in UnitIds :
    units[i].pos >= 0 => units[i].pos = getLayerIndex(units[i].layer)

\* C6: at every cloud publish each of the four rows holds a unit written
\* since the most recent Layer2 unit of the session.
C6_CloudFullyWritten ==
  \A c \in CloudIds :
    LET s == LastStart(clouds[c].unit)
    IN s > 0 /\ \A r \in 1..CloudHeight : clouds[c].rows[r] >= s

\* C7 as stated: a published cloud carries the time of the iteration that
\* received the Layer2 unit of its cycle.
C7_StampIsCycleStart ==
  \A c \in CloudIds :
    LET s == LastStart(clouds[c].unit)
    IN s > 0 /\ clouds[c].stamp = units[s].t

\* C7 amended: a published cloud carries the time of the iteration that
\* received the Layer4 unit which triggered the publish.
C7_StampIsPublishIteration ==
  \A c \in CloudIds : clouds[c].stamp = units[clouds[c].unit].t

C7_Witness ==
  \E c \in CloudIds :
    LET s == LastStart(clouds[c].unit)
    IN s > 0 /\ clouds[c].stamp > units[s].t

\* C8: a session whose units are exactly L2, L3, L1, L4 publishes one 2D scan
\* and one multi-return message on each of the slots 0..3, and exactly one
\* cloud, whose rows hold the L2, L3, L1 and L4 unit in this order.
CycleSequence == <<Layer2, Layer3, Layer1, Layer4>>

SessionUnits(k) == {i \in UnitIds : units[i].sess = k}

PubsOf(o, i) == {j \in 1..Len(trace) : trace[j].op = o /\ trace[j].b = i}

C8_OneCycleEndToEnd ==
  \A k \in 1..attempts :
    LET S == SessionUnits(k)
    IN (Cardinality(S) = 4 /\
        \E f \in S : \A n \in 0..3 :
           f + n \in S /\ units[f + n].layer = CycleSequence[n + 1])
       =>
       LET f == CHOOSE f \in S : \A i \in S : f <= i
           C == {c \in CloudIds : clouds[c].unit \in S}
       IN /\ \A n \in 0..3 :
               /\ Cardinality(PubsOf("pubScan", f + n)) = 1
               /\ Cardinality(PubsOf("pubMulti", f + n)) = 1
               /\ \A j \in PubsOf("pubScan", f + n) \cup PubsOf("pubMulti", f + n) :
                    trace[j].a = n
          /\ Cardinality(C) = 1
          /\ \A c \in C : clouds[c].rows = <<f, f + 1, f + 2, f + 3>>

\* the cycle arrives in a second session, after a session that left a row
C8_Witness ==
  /\ attempts = 2
  /\ Layers = <<Layer2>> \o CycleSequence
  /\ units[1].sess = 1 /\ SessionUnits(2) = {2, 3, 4, 5}
  /\ Len(clouds) = 1 /\ clouds[1].rows = <<2, 3, 4, 5>>

\* C9: the channel chosen for a unit is 0 for Layer2, 1 for Layer3, 2 for
\* Layer1, 3 for Layer4 and 0 for any other identifier; always in 0..3.
C9_LayerIndexTable ==
  \A j \in 1..Len(trace) :
    trace[j].op \in {"pubScan", "pubMulti"} =>
      LET l == units[trace[j].b].layer
      IN /\ trace[j].a \in 0..3
         /\ l = Layer2 => trace[j].a = 0
         /\ l = Layer3 => trace[j].a = 1
         /\ l = Layer1 => trace[j].a = 2
         /\ l = Layer4 => trace[j].a = 3
         /\ l \notin {Layer1, Layer2, Layer3, Layer4} => trace[j].a = 0

C9_Witness ==
  /\ \A l \in LayerIds : \E i \in UnitIds : units[i].layer = l
  /\ \E j \in 1..Len(trace) :
       /\ trace[j].op = "pubScan" /\ trace[j].a = 0
       /\ units[trace[j].b].layer = OtherLayer

\* C10: a failed connect is followed by the 1-unit sleep and then, unless
\* shutdown is signalled, by another connect, with no other driver call in
\* between; the machine stays at the head of the session loop and is
\* terminated only after shutdown.
FailSleep == Ev("sleep", ConnectRetrySleep, 0)

C10_Step ==
  /\ \A i \in 1..Len(trace') :
       trace'[i] = Ev("isConnected", 0, 0) =>
         /\ i + 1 <= Len(trace') /\ trace'[i + 1] = FailSleep
         /\ i + 2 <= Len(trace') => trace'[i + 2].op = "connect"
  /\ (Len(trace') = Len(trace) + 3 /\ trace'[Len(trace')] = FailSleep) =>
       /\ now' = now + 1
       /\ pc' = "outer"
  /\ (trace # <<>> /\ trace[Len(trace)] = FailSleep) =>
       IF ok
         THEN \/ ~ok' /\ pc' = pc /\ trace' = trace
              \/ /\ Len(trace') > Len(trace)
                 /\ trace'[Len(trace) + 1].op = "connect"
                 /\ pc' \in {"outer", "inner"}
         ELSE pc' = "done" /\ trace' = trace
  /\ pc' = "done" => ~ok'

C10_ConnectRetriesForever == [][C10_Step]_vars

\* two failures in a row, then a third connect
C10_Witness ==
  \E i \in 1..Len(trace) :
    /\ i + 4 <= Len(trace)
    /\ trace[i] = FailSleep /\ trace[i + 1].op = "connect"
    /\ trace[i + 3] = FailSleep /\ trace[i + 4].op = "connect"

\* C11: a getScanData that returns false is followed by the 10-unit sleep
\* (longer than the connect-retry sleep) and the disconnect; the machine is
\* back at the head of the session loop, not terminated, and the next unit
\* is requested only right after a full connect, login, configuration and
\* scan start.
TimedOut == Ev("getScanData", 0, 0)

SessionSetup == << Ev("connect", 0, 0), Ev("isConnected", 1, 0) >> \o ConfigureCalls

C11_Step ==
  /\ TimeoutSleep > ConnectRetrySleep
  /\ \A i \in 1..Len(trace') :
       trace'[i] = TimedOut =>
         /\ i + 2 <= Len(trace')
         /\ trace'[i + 1] = Ev("sleep", TimeoutSleep, 0)
         /\ trace'[i + 2] = Ev("disconnect", 0, 0)
         /\ i + 3 <= Len(trace') => trace'[i + 3].op = "connect"
         /\ \A k \in (i + 1)..Len(trace') :
              (trace'[k].op = "getScanData" /\
               \A m \in (i + 1)..(k - 1) : trace'[m].op # "getScanData")
              => /\ k - Len(SessionSetup) > i + 2
                 /\ SubSeq(trace', k - Len(SessionSetup), k - 1) = SessionSetup
  /\ (Len(trace') > Len(trace) /\ trace'[Len(trace) + 1] = TimedOut) =>
       /\ now' = now + 10
       /\ pc' = "outer"
       /\ ~connected'
  /\ pc' = "done" => ~ok'

C11_TimeoutRestartsSession == [][C11_Step]_vars

\* a timeout, then a new session that delivers a unit
C11_Witness ==
  \E i, k \in 1..Len(trace) :
    /\ i < k
    /\ trace[i] = TimedOut
    /\ trace[k].op = "getScanData" /\ trace[k].a = 1

\* C12: when the process has exited on the shutdown signal the transport is
\* closed: every successful connect was followed by a disconnect before the
\* next connect or the exit.
Calls(e) == {i \in 1..Len(trace) : trace[i] = e}

C12_ExitClosesTransport ==
  pc = "done" =>
    /\ ~connected
    /\ Cardinality(Calls(Ev("isConnected", 1, 0))) = Cardinality(Calls(Ev("disconnect", 0, 0)))
    /\ \A i \in Calls(Ev("isConnected", 1, 0)) :
         \E j \in Calls(Ev("disconnect", 0, 0)) :
           /\ i < j
           /\ \A m \in (i + 1)..(j - 1) : trace[m].op # "connect"

\* exit from streaming of a second session, after a timeout and a retry-free reconnect
C12_Witness ==
  /\ pc = "done"
  /\ Cardinality(Calls(Ev("isConnected", 1, 0))) = 2
  /\ trace[Len(trace)] = Ev("disconnect", 0, 0)
  /\ trace[Len(trace) - 1].op # "sleep"

\* C13: the process stops only after the shutdown signal: it is terminated,
\* cleanly or by a fault, only when ros::ok() has turned false.
C13_NoFatalExit == pc \in {"done", "crashed"} => ~ok

\* C14: units are handled one at a time in arrival order: the 2D scan, the
\* multi-return message, the buffer write and the cloud publish of a unit all
\* lie between its getScanData and the next getScanData, in this order, and
\* every unit held in a published cloud had its per-layer messages published
\* before that cloud.  Stated of the most recent unit of every state (every
\* unit is the most recent one in the states before the next arrives, and the
\* trace only grows).
ReadOf(i) == CHOOSE g \in 1..Len(trace) : trace[g] = Ev("getScanData", 1, i)

OpsOf(i, from) ==
  LET mine == SelectSeq(SubSeq(trace, from, Len(trace)), LAMBDA e : e.b = i)
  IN [k \in 1..Len(mine) |-> mine[k].op]

C14_OneUnitAtATime ==
  units # <<>> =>
    LET n == Len(units)
        g == ReadOf(n)
        published == clouds # <<>> /\ clouds[Len(clouds)].unit = n
        last == CHOOSE j \in g..Len(trace) :
                  trace[j].b = n /\ \A m \in (j + 1)..Len(trace) : trace[m].b # n
    IN /\ \A j \in 1..(g - 1) : trace[j].b < n
       /\ \A j \in (g + 1)..Len(trace) : trace[j].b \in {0, n}
       /\ OpsOf(n, g) =
            IF units[n].pos < 0 THEN <<"getScanData", "pubScan", "pubMulti">>
            ELSE IF ~published THEN <<"getScanData", "pubScan", "pubMulti", "fill">>
            ELSE <<"getScanData", "pubScan", "pubMulti", "fill", "pubCloud">>
       /\ \A m \in (g + 1)..last : trace[m].op # "getScanData"
       /\ published =>
            /\ trace[last] = Ev("pubCloud", Len(clouds), n)
            /\ \A r \in 1..CloudHeight :
                 LET u == clouds[Len(clouds)].rows[r]
                 IN u # 0 =>
                      /\ \E j \in 1..(last - 1) : trace[j].op = "pubScan" /\ trace[j].b = u
                      /\ \E j \in 1..(last - 1) : trace[j].op = "pubMulti" /\ trace[j].b = u

\* a published cloud, then a further unit read
C14_Witness ==
  \E q, g \in 1..Len(trace) :
    /\ q < g
    /\ trace[q].op = "pubCloud"
    /\ trace[g].op = "getScanData" /\ trace[g].a = 1

\* C15: if shutdown is never signalled and from some point on no connect
\* attempt fails, then from the head of the session loop, after any failures
\* and timeouts, the machine reaches Streaming (scanContinuous(true) issued,
\* about to request a unit), as long as a connect attempt is left within
\* MaxSessionConnects.
ConnectFailed == attempts' = attempts + 1 /\ pc' = "outer"

Streaming ==
  /\ pc = "inner"
  /\ trace # <<>> /\ trace[Len(trace)] = Ev("scanContinuous", 1, 0)

AttemptsUsedUp == pc = "outer" /\ attempts = MaxSessionConnects

C15_RecoveryReachesStreaming ==
  ([]ok /\ <>[][~ConnectFailed]_vars) =>
     [](pc = "outer" => <>(Streaming \/ AttemptsUsedUp))

\* Streaming entered after a connect failure and a read timeout
C15_Witness ==
  /\ Streaming
  /\ Calls(TimedOut) # {}
  /\ Calls(FailSleep) # {}

\* C16: in every session the driver is called in the order connect,
\* isConnected, login, getScanConfig, getScanOutputRange, setScanDataConfig,
\* setEchoFilter, enableRangingApplication, saveConfig, startDevice,
\* startMeasurement, scanContinuous(true), and only then getScanData: login
\* directly follows an isConnected that returned true, and every getScanData
\* has the scanContinuous(true) of its own session before it.
SetupOrder ==
  << "login", "getScanConfig", "getScanOutputRange", "setScanDataConfig",
     "setEchoFilter", "enableRangingApplication", "saveConfig", "startDevice",
     "startMeasurement", "scanContinuous" >>

C16_DriverCallOrder ==
  \A i \in 1..Len(trace) :
    /\ trace[i].op = "connect" =>
         i + 1 <= Len(trace) /\ trace[i + 1].op = "isConnected"
    /\ trace[i].op = "isConnected" => i > 1 /\ trace[i - 1].op = "connect"
    /\ trace[i] = Ev("isConnected", 1, 0) =>
         /\ i + Len(SetupOrder) <= Len(trace)
         /\ \A k \in 1..Len(SetupOrder) : trace[i + k].op = SetupOrder[k]
         /\ trace[i + Len(SetupOrder)].a = 1
    /\ \A k \in 1..Len(SetupOrder) :
         trace[i].op = SetupOrder[k] =>
           i - k >= 1 /\ trace[i - k] = Ev("isConnected", 1, 0)
    /\ trace[i].op = "getScanData" =>
         \E j \in 1..(i - 1) :
           /\ trace[j] = Ev("scanContinuous", 1, 0)
           /\ \A m \in (j + 1)..(i - 1) :
                trace[m].op \notin {"connect", "disconnect", "isConnected"}

\* a second session that requests a unit
C16_Witness ==
  /\ Cardinality(Calls(Ev("scanContinuous", 1, 0))) = 2
  /\ \E g \in 2..Len(trace) :
       /\ trace[g].op = "getScanData"
       /\ trace[g - 1] = Ev("scanContinuous", 1, 0)
       /\ \E j \in 1..(g - 1) : trace[j].op = "disconnect"

\* C17: the write cursors stay inside the aggregate buffer: no unit is
\* written at a position past the end of row 3.
C17_CursorInsideBuffer ==
  /\ cursor <= CloudHeight
  /\ \A i \in UnitIds : units[i].pos < CloudHeight

\* C18: between two consecutive Layer2 units of a session, and after the last
\* one, the aggregate cloud is published at most once.
C18_OneCloudPerCycle ==
  \A c, d \in CloudIds :
    c # d => LastStart(clouds[c].unit) # LastStart(clouds[d].unit)

\* C19: connect is called only while the transport is closed and disconnect
\* only while it is open: going back from a connect, the nearest successful
\* isConnected or disconnect (if any) is a disconnect; going back from a
\* disconnect it is a successful isConnected; and a failed connect is
\* followed by the next connect with no disconnect in between.
Opened == Ev("isConnected", 1, 0)
Closed == Ev("disconnect", 0, 0)

\* the nearest opening or closing of the transport before trace position i
TransportBefore(i) ==
  LET S == {j \in 1..(i - 1) : trace[j] \in {Opened, Closed}}
  IN IF S = {} THEN Closed ELSE trace[CHOOSE j \in S : \A k \in S : k <= j]

C19_ConnectOnlyWhenClosed ==
  /\ \A i \in 1..Len(trace) :
       /\ trace[i].op = "connect" => TransportBefore(i) = Closed
       /\ trace[i] = Closed =>
            /\ TransportBefore(i) = Opened
            /\ \E j \in 1..(i - 1) : trace[j] = Opened
       /\ trace[i] = Ev("isConnected", 0, 0) =>
            \A k \in (i + 1)..Len(trace) :
              (trace[k].op = "connect" /\
               \A m \in (i + 1)..(k - 1) : trace[m].op # "connect")
              => \A m \in (i + 1)..(k - 1) : trace[m] # Closed
  /\ connected = (TransportBefore(Len(trace) + 1) = Opened)
  /\ pc = "outer" => ~connected

\* a session closed by a timeout, a failed connect, and a third connect
C19_Witness ==
  \E i, j, k \in 1..Len(trace) :
    /\ i < j /\ j < k
    /\ trace[i] = Closed
    /\ trace[j] = Ev("isConnected", 0, 0)
    /\ trace[k].op = "connect"

\* C20: a unit with an unrecognized layer identifier is published on the
\* slot-0 scan and multi-return channels, leaves synced as it was, does not
\* move the cursors back and publishes no cloud; only a Layer2 unit sets
\* synced or puts the cursors back to the start, and only a Layer4 unit
\* publishes a cloud.
C20_Step ==
  Len(units') = Len(units) + 1 =>
    LET id == Len(units')
        l == units'[id].layer
        p == units'[id].pos
    IN /\ l \notin {Layer1, Layer2, Layer3, Layer4} =>
            /\ trace'[Len(trace) + 2] = Ev("pubScan", 0, id)
            /\ trace'[Len(trace) + 3] = Ev("pubMulti", 0, id)
            /\ synced' = synced
            /\ clouds' = clouds
            /\ cursor' \in {cursor, cursor + 1}
            /\ p \in {-1, cursor}
       /\ synced' # synced => l = Layer2
       /\ (p # -1 /\ p # cursor) => l = Layer2
       /\ cursor' < cursor => l = Layer2
       /\ l = Layer2 => synced' /\ p = 0 /\ cursor' = 1
       /\ clouds' # clouds => l = Layer4

C20_UnknownLayerIsNoMarker == [][C20_Step]_vars

\* an unrecognized unit discarded before the start marker and another one
\* written after it
C20_Witness ==
  \E i, j \in UnitIds :
    /\ units[i].layer = OtherLayer /\ units[i].pos = -1
    /\ units[j].layer = OtherLayer /\ units[j].pos >= 1
    /\ units[i].sess = units[j].sess
====
